---- MODULE Spec2Model ----
(***************************************************************************)
(* The streaming session coordinator of the player page: the Player        *)
(* component (track resolution, heartbeat, completion, quota gate) and the *)
(* useHLSPlayer hook (engine life cycle).  One action is one handler or    *)
(* continuation that React runs to completion: its state updates, the      *)
(* re-render they cause and the effects whose dependencies changed.        *)
(*                                                                         *)
(* React 19 (README.md): state updates made in one continuation are        *)
(* batched into one render; a DOM ref is detached during the commit,       *)
(* before the passive-effect cleanups of that commit run.                  *)
(*                                                                         *)
(* The job status polling of the AdminUpload page is modelled beside the   *)
(* player; each specification moves one of the two pages.                  *)
(***************************************************************************)
EXTENDS Integers, FiniteSets, Sequences, TLC

\* ---------------------------------------------------------------- bounds
MaxAttempts == 2        \* runs of the loadTrack effect (1 at mount + re-runs)
NumTracks == 2          \* track ids the route can name
Duration == 1           \* length of a track, in position units
MaxInflight == 2        \* heartbeat requests in flight at once
MaxPolls == 1           \* quota-refresh requests in flight at once
MaxEnded == 1           \* 'ended' events of the media element per session
MaxErrors == 3          \* fatal errors one engine reports
MaxQuota == 1           \* largest daily quota, in minutes
MaxTime == 3            \* largest media time the element reports, in seconds
MaxJobs == 2            \* upload jobs the server creates
MaxStatusPolls == 2     \* job status requests of one job in flight at once

Attempts == 1..MaxAttempts
TrackIds == 1..NumTracks
Sids == 1..MaxAttempts  \* the server hands out one session id per start call

\* ---------------------------------------------------------------- values
NullVal == 0 - 1        \* a JSON field that is null or absent
NoError == <<>>         \* error state ''
NoQuota == [unlimited |-> FALSE, minutes_remaining |-> 0 - 2]   \* quota state null

\* quota objects the server may return
Quotas == [unlimited : BOOLEAN, minutes_remaining : {NullVal, 0, 5}]

\* The quota object the server computes for an account (server code is not
\* part of the client sources: after the specification's quota rule).
Max(x, y) == IF x >= y THEN x ELSE y
ServerQuota(unl, total, used) ==
    [unlimited |-> unl, minutes_remaining |-> Max(0, total - used),
     quota_limit |-> total, minutes_used |-> used]
ServerQuotas ==
    {ServerQuota(unl, t, u) : unl \in BOOLEAN, t \in 0..MaxQuota, u \in 0..(MaxQuota + 1)}

\* JavaScript !v for a number-or-null field
Falsy(v) == v = NullVal \/ v = 0

\* err.response.data.detail of a failed call
NoDetail == [kind |-> "absent", error |-> "", minutes_used |-> 0, quota_limit |-> 0]
Details ==
    { [kind |-> k, error |-> "", minutes_used |-> 0, quota_limit |-> 0] :
          k \in {"absent", "null", "string"} }
    \cup [kind : {"object"}, error : {"", "Daily limit exceeded"},
          minutes_used : {305}, quota_limit : {300}]

\* Math.floor of a number of minutes held in tenths
Floor(tenths) == tenths \div 10

QuotaStatus == 429      \* HTTP status of an exhausted quota
OtherStatus == 500      \* any other failure status

VARIABLES
    mounted,        \* the Player component is mounted
    hlsSupported,   \* Hls.isSupported() in this browser
    id,             \* useParams().id
    user,           \* identity of the user object of the auth store
    nav,            \* how many times id has changed (history)
    track, streamInfo, loading, error, isPlaying, sessionId, quota,   \* useState
    hlsLoaded,      \* useState of useHLSPlayer
    audioRef,       \* audioRef.current is an element
    audio,          \* the media element: [paused, currentTime]
    hbTimer,        \* heartbeat interval: 0, or the sessionId its closure holds
    hbLive,         \* heartbeat intervals set and not cleared
    pollTimer,      \* quota refresh interval is live
    retryTimer,     \* the 100 ms timeout of useHLSPlayer is pending
    hlsRef,         \* hlsRef.current: 0, or the engine of that attach cycle
    hlsCleanup,     \* cleanup the last run of the useHLSPlayer effect returned
    eng,            \* engine of each attach cycle (keyed by resolution attempt)
    att,            \* each run of loadTrack: [pc, id, nav, sid]
    nAtt,           \* runs of loadTrack so far
    nextSid,        \* session ids handed out by the server
    hbInflight, pollInflight,     \* requests awaiting their response
    starts,         \* history: attempts that issued POST /listen/start
    completes,      \* history: POST /listen/complete calls issued, per session id
    gate,           \* history: a start or heartbeat response closed the quota gate
    unmountInfo,    \* history: the player's state when it was unmounted
    last,           \* history: the handler that ran last
    keyEndpoint,    \* streamInfo.keyEndpoint of the resolved manifest
    authStorage,    \* localStorage item 'auth-storage'
    req,            \* history: the request the engine's loader handled last
    hlsErr,         \* history: per engine, the commands its ERROR handler issued
    duration, bufferedRanges,     \* useState of the buffer display
    compDone        \* history: POST /listen/complete calls answered, per session id

\* The AdminUpload page.
VARIABLES
    adminMounted,   \* the AdminUpload component is mounted
    jobId, jobStatus, uploading, success, uploadError,    \* useState (error)
    pollInterval,   \* the live setInterval of the polling effect: 0, or the
                    \* jobId its closure holds
    statusPolls,    \* per job, getJobStatus requests awaiting their response
    requests,       \* requestUpload calls awaiting their response
    uploads,        \* per job, where its handleSubmit stands
    jobs,           \* jobs the server has created
    resetTimers,    \* pending setTimeout(resetForm, 2000)
    terminalSeen    \* history: jobs for which a poll observed completed or failed

reactVars == <<track, streamInfo, loading, error, isPlaying, sessionId, quota, hlsLoaded>>
vars == <<mounted, hlsSupported, id, user, nav, track, streamInfo, loading, error, isPlaying,
          sessionId, quota, hlsLoaded, audioRef, audio, hbTimer, pollTimer,
          retryTimer, hlsRef, hlsCleanup, eng, att, nAtt, nextSid, hbInflight, pollInflight,
          starts, completes, gate, unmountInfo, last, hbLive, keyEndpoint, authStorage, req,
          hlsErr, duration, bufferedRanges, compDone,
          adminMounted, jobId, jobStatus, uploading, success, uploadError, pollInterval,
          statusPolls, requests, uploads, jobs, resetTimers, terminalSeen>>
\* what the engine's loader and ERROR handler work on
ioVars == <<keyEndpoint, authStorage, req, hlsErr>>
\* what the media event handlers of the buffer display work on
trackerVars == <<duration, bufferedRanges>>
\* state that the handlers of Player's own effects never touch
\* the AdminUpload page
adminVars == <<adminMounted, jobId, jobStatus, uploading, success, uploadError,
               pollInterval, statusPolls, requests, uploads, jobs, resetTimers,
               terminalSeen>>
auxVars == <<ioVars, trackerVars, compDone, adminVars>>
\* the player page, without the history variable last
playerVars == <<mounted, hlsSupported, id, user, nav, reactVars, audioRef, audio, hbTimer,
                hbLive, pollTimer, retryTimer, hlsRef, hlsCleanup, eng, att, nAtt,
                nextSid, hbInflight, pollInflight, starts, completes, gate, unmountInfo,
                ioVars, trackerVars, compDone>>

NoStream == [att |-> 0, trackId |-> 0]
NoUrl == <<>>           \* '' or undefined where a URL is expected
NoToken == ""           \* getAuthToken() returns null
NoHeader == <<>>        \* no Authorization header set
NoStorage == [kind |-> "absent", token |-> NoToken]
NoRequest == [url |-> NoUrl, key |-> FALSE, sent |-> NoUrl, auth |-> NoHeader,
              token |-> NoToken]
\* data of an ERROR event that names no cause, and the history of an engine
\* that has reported no fatal error
NoData == [details |-> "-", code |-> 0]
NoCommands == [startLoad |-> 0, recoverMediaError |-> 0, destroy |-> 0,
               data |-> NoData, cmd |-> "-"]
NoAttempt == [pc |-> "none", id |-> 0, nav |-> 0, sid |-> 0]
\* a media element with no resource: duration NaN, nothing buffered
NewAudio == [paused |-> TRUE, currentTime |-> 0, duration |-> NullVal, buffered |-> <<>>]
NoUnmount == [done |-> FALSE, sid |-> 0, pos |-> 0, playing |-> FALSE, active |-> FALSE,
              completed |-> FALSE, cpos |-> 0]
\* values of last: anything else; a heartbeat request was sent; a heartbeat
\* request failed; a completion call failed; a call of loadTrack failed
Quiet == [ev |-> "-", att |-> 0, status |-> 0, detail |-> NoDetail, sid |-> 0]
Sent(sid) == [Quiet EXCEPT !.ev = "heartbeat", !.sid = sid]
HeartbeatFailed == [Quiet EXCEPT !.ev = "heartbeatFail"]
CompleteFailed(sid) == [Quiet EXCEPT !.ev = "completeFail", !.sid = sid]
Failed(call, a, st, d) ==
    [ev |-> call, att |-> a, status |-> st, detail |-> d, sid |-> 0]
\* the engine of attach cycle a reported an error that is not fatal
NonFatal(a) == [Quiet EXCEPT !.ev = "nonFatalError", !.att = a]

\* ------------------------------------------------------------- URLs
\* A URL is the sequence of its parts: the host, then "/" and a segment for
\* each path segment.
RECURSIVE JoinPath(_)
JoinPath(path) ==
    IF path = <<>> THEN <<>> ELSE <<"/", Head(path)>> \o JoinPath(Tail(path))
Url(host, path) == <<host>> \o JoinPath(path)

\* String.prototype.includes
Includes(url, pat) ==
    \E i \in 1..(Len(url) - Len(pat) + 1) : SubSeq(url, i, i + Len(pat) - 1) = pat

Localhost == <<"localhost:8000">>
Loopback == <<"127.0.0.1:8000">>
KeysPath == <<"/", "keys", "/">>
ApiKeysPath == <<"/", "api", "/", "keys", "/">>

\* URLs the engine may request, and key endpoints a manifest may declare
Hosts == {"localhost:8000", "127.0.0.1:8000", "pub.example"}
Paths == {<<"keys", "42">>, <<"api", "keys", "42">>, <<"hls", "42", "enc.key">>,
          <<"hls", "42", "seg0.ts">>}
Urls == {Url(h, p) : h \in Hosts, p \in Paths}
KeyEndpoints == {NoUrl, Url("pub.example", <<"keys", "42">>),
                 Url("pub.example", <<"stream-key", "42">>)}

\* contents of localStorage 'auth-storage': absent, not JSON, or the persisted
\* auth state with its token (NoToken: null or missing)
Storages == {NoStorage, [kind |-> "malformed", token |-> NoToken]}
            \cup [kind : {"json"}, token : {NoToken, "t1", "t2"}]

ErrorTypes == {"networkError", "mediaError", "otherError"}
\* data.details and data.response.code of an ERROR event: a failed load is a
\* network error and carries the HTTP status of the response
ErrorData(type) ==
    IF type = "networkError"
    THEN [details : {"keyLoadError", "fragLoadError"}, code : {401, 403, 404}]
    ELSE IF type = "mediaError"
    THEN {[details |-> "bufferAppendError", code |-> 0]}
    ELSE {[details |-> "internalException", code |-> 0]}

\* ------------------------------------------------------- media times
\* TimeRanges objects an element may report as audio.buffered while its
\* duration is d: normalised (ranges in order, not empty, not touching), no
\* range reaching beyond the duration.
MaxRanges == 2
MediaTimes == 0..MaxTime
Normalised(b) ==
    \A i \in 1..Len(b) :
        /\ b[i].start < b[i].end
        /\ i < Len(b) => b[i].end < b[i + 1].start
TimeRanges(d) ==
    {b \in UNION {[1..n -> [start : 0..d, end : 0..d]] : n \in 0..MaxRanges} :
        Normalised(b)}

\* ------------------------------------------------------------ rendering
\* Which of the four return branches of Player renders.
Screen(ld, er, tr, q) ==
    IF ld THEN "loading"
    ELSE IF er # NoError \/ tr = 0 THEN "error"
    ELSE IF q # NoQuota /\ Falsy(q.minutes_remaining) THEN "limit"
    ELSE "player"

\* The <audio> element exists only in the last branch.
AudioRendered(m, ld, er, tr, q) == m /\ Screen(ld, er, tr, q) = "player"

\* --------------------------------------------------- loadTrack: catch
QuotaDetailMessage(d) ==
    <<d.error, ". Used ", Floor(d.minutes_used), " of ", Floor(d.quota_limit),
      " minutes today.">>
GenericQuotaMessage == <<"Daily listening quota exceeded">>
FailedToLoadMessage == <<"Failed to load track">>
DetailMessage(d) == IF d.kind = "string" THEN <<"<detail string>">>
                    ELSE <<"<detail object>", d.error>>

\* The catch block of loadTrack: the value passed to setError, or thrown = TRUE
\* when the block itself raises (typeof null is 'object', and null.error is a
\* TypeError), in which case setError is never called.
Catch(status, d) ==
    IF status = QuotaStatus
    THEN IF d.kind = "null" THEN [thrown |-> TRUE, error |-> NoError]
         ELSE IF d.kind = "object" /\ d.error # ""
              THEN [thrown |-> FALSE, error |-> QuotaDetailMessage(d)]
              ELSE [thrown |-> FALSE, error |-> GenericQuotaMessage]
    ELSE IF d.kind \in {"absent", "null"}
         THEN [thrown |-> FALSE, error |-> FailedToLoadMessage]
         ELSE [thrown |-> FALSE, error |-> DetailMessage(d)]

\* ------------------------------------------------------------- effects
Complete(c, sid) == [c EXCEPT ![sid] = @ + 1]

\* audioRef.current as a passive-effect cleanup reads it: the commit has already
\* detached (or attached) the ref.
RefAtCleanup(refAfter) == refAfter

\* The guard of the heartbeat effect without its sessionId test.
HeartbeatGuardIgnoringSession(playing, sid, ref) == playing /\ ref

\* The guard of the heartbeat effect without its isPlaying test.
HeartbeatGuardIgnoringPlaying(playing, sid, ref) == sid # 0 /\ ref

\* The guard of the heartbeat effect: a timer is created only when it passes.
HeartbeatGuard(playing, sid, ref) == playing /\ sid # 0 /\ ref

\* A heartbeat effect whose cleanup forgets clearInterval.
ClearIntervalMissing(n, handle) == n

\* The cleanup the heartbeat effect returns when it has set an interval
\* (handle # 0): clearInterval.  n is the number of live intervals.
ClearInterval(n, handle) == IF handle # 0 THEN n - 1 ELSE n

\* The guard of the useHLSPlayer effect: TRUE when the effect returns early.
HlsGuard(ld, er, si, ref) == ld \/ er # NoError \/ si = NoStream \/ ~ref

\* The cleanup of the completion effect, run when sessionId changes or the
\* component unmounts: does it issue the completion call?
CompletionCleanup(sid, ref) == sid # 0 /\ RefAtCleanup(ref)

\* The commit that follows a handler: a1 and c1 are the media element and the
\* completion calls as the handler left them.  Re-renders, then runs the
\* cleanups and bodies of the effects whose dependencies changed.
Commit(a1, c1) ==
    LET ref2 == AudioRendered(TRUE, loading', error', track', quota')
        a2 == IF ref2 /\ audioRef THEN a1 ELSE NewAudio
        hlsDeps == <<streamInfo', loading', error'>> # <<streamInfo, loading, error>>
        hbDeps == <<isPlaying', sessionId'>> # <<isPlaying, sessionId>>
        destroyNow == hlsCleanup = "destroy" /\ hlsRef # 0
        eng1 == IF destroyNow THEN [eng EXCEPT ![hlsRef] = "destroyed"] ELSE eng
        ref1 == IF hlsCleanup = "destroy" THEN 0 ELSE hlsRef
    IN
    /\ audioRef' = ref2
    /\ audio' = a2
    /\ completes' = IF sessionId' # sessionId
                         /\ CompletionCleanup(sessionId, ref2)
                    THEN Complete(c1, sessionId)
                    ELSE c1
    /\ IF hbDeps
       THEN /\ hbTimer' = IF HeartbeatGuard(isPlaying', sessionId', ref2)
                          THEN sessionId' ELSE 0
            /\ hbLive' = ClearInterval(hbLive, hbTimer)
                           + (IF HeartbeatGuard(isPlaying', sessionId', ref2)
                              THEN 1 ELSE 0)
       ELSE UNCHANGED <<hbTimer, hbLive>>
    /\ IF hlsDeps
       THEN IF HlsGuard(loading', error', streamInfo', ref2)
            THEN /\ retryTimer' = ~ref2
                 /\ hlsCleanup' = IF ref2 THEN "none" ELSE "timer"
                 /\ hlsRef' = ref1
                 /\ eng' = eng1
            ELSE /\ retryTimer' = FALSE
                 /\ hlsCleanup' = "destroy"
                 /\ hlsRef' = ref1
                 /\ eng' = [eng1 EXCEPT ![streamInfo'.att] = "pending"]
       ELSE UNCHANGED <<retryTimer, hlsCleanup, hlsRef, eng>>

\* A handler that sets no state (or runs after unmount, where setState is
\* ignored): no render, no effect.
NoCommit == UNCHANGED <<audioRef, audio, completes, hbTimer, hbLive, retryTimer,
                        hlsCleanup, hlsRef, eng>>

\* A quota update that keeps the remaining minutes the player already held.
SetQuotaKeepingRemaining(prev, resp) ==
    IF prev = NoQuota THEN resp
    ELSE [resp EXCEPT !.minutes_remaining = prev.minutes_remaining]

\* A quota update guarded against responses that report more remaining time
\* than the player holds.
SetQuotaNeverIncreasing(prev, resp) ==
    IF prev # NoQuota /\ resp.minutes_remaining > prev.minutes_remaining THEN prev
    ELSE resp

\* setQuota(response.data.quota): the response's quota replaces the held one.
SetQuota(prev, resp) == resp

\* A quota that closes the gate: not unlimited and no time remaining.
ZeroRemaining(q) == ~q.unlimited /\ Falsy(q.minutes_remaining)

\* --------------------------------------------------- AdminUpload page
Jobs == 1..MaxJobs
NoJob == 0              \* jobId null
NoStatus == "null"      \* jobStatus null
NoMessage == ""         \* error or success ''
\* response.data.status of GET job status
JobStatuses == {"pending_upload", "processing", "completed", "failed"}
\* response.data.error of a failed job: absent, or the server's message
JobErrors == {NoMessage, "transcode failed"}
UploadFailedMessage == "Upload failed"
UploadCompletedMessage == "Upload completed successfully!"
SelectFileMessage == "Please select a file"
JobStatusFailed(j) == [Quiet EXCEPT !.ev = "jobStatusFail", !.sid = j]

\* The AdminUpload page after construction.
AdminIdle ==
    /\ adminMounted = TRUE /\ jobId = NoJob /\ jobStatus = NoStatus
    /\ uploading = FALSE /\ success = NoMessage /\ uploadError = NoMessage
    /\ pollInterval = 0 /\ statusPolls = [j \in Jobs |-> 0] /\ requests = 0
    /\ uploads = [j \in Jobs |-> "none"] /\ jobs = 0 /\ resetTimers = 0
    /\ terminalSeen = {}

\* ---------------------------------------------------------------- Init
\* The state after the first render and its effects: loadTrack has been
\* called and awaits GET /tracks/{id}; the useHLSPlayer effect found loading
\* set and no audio element, and armed its 100 ms timeout.
InitWith(poll) ==
    /\ mounted = TRUE /\ hlsSupported \in BOOLEAN /\ id = 1 /\ user = 0 /\ nav = 0
    /\ track = 0 /\ streamInfo = NoStream /\ loading = TRUE /\ error = NoError
    /\ isPlaying = FALSE /\ sessionId = 0 /\ quota = NoQuota /\ hlsLoaded = FALSE
    /\ audioRef = FALSE /\ audio = NewAudio
    /\ hbTimer = 0 /\ hbLive = 0 /\ pollTimer = poll /\ retryTimer = TRUE
    /\ hlsRef = 0 /\ hlsCleanup = "timer" /\ eng = [a \in Attempts |-> "none"]
    /\ att = [a \in Attempts |->
                 IF a = 1 THEN [pc |-> "track", id |-> 1, nav |-> 0, sid |-> 0]
                 ELSE NoAttempt]
    /\ nAtt = 1 /\ nextSid = 0 /\ hbInflight = 0 /\ pollInflight = 0
    /\ starts = {} /\ completes = [s \in Sids |-> 0]
    /\ gate = FALSE /\ unmountInfo = NoUnmount
    /\ last = Quiet
    /\ keyEndpoint = NoUrl /\ authStorage = NoStorage /\ req = NoRequest
    /\ hlsErr = [a \in Attempts |-> NoCommands]
    /\ duration = 0 /\ bufferedRanges = <<>>
    /\ compDone = [s \in Sids |-> 0]
    /\ AdminIdle

Init == InitWith(FALSE)

\* ------------------------------------------------- the loadTrack effect
\* The effect body: a new call of loadTrack, which issues GET /tracks/{id}.
LoadTrack(t, n) ==
    /\ nAtt < MaxAttempts
    /\ nAtt' = nAtt + 1
    /\ att' = [att EXCEPT ![nAtt + 1] =
                  [pc |-> "track", id |-> t, nav |-> n, sid |-> 0]]

\* The route parameter changes while the player stays mounted: dependency id.
ChangeTrack(t) ==
    /\ UNCHANGED auxVars
    /\ mounted /\ t # id
    /\ id' = t /\ nav' = nav + 1
    /\ LoadTrack(t, nav + 1)
    /\ last' = Quiet
    /\ NoCommit
    /\ UNCHANGED <<mounted, hlsSupported, user, reactVars, pollTimer, nextSid, hbInflight,
                   pollInflight, starts, gate, unmountInfo>>

\* The auth store hands out a new user object (ProtectedRoute calls setUser
\* with the /auth/me response): dependency user.
ChangeUser ==
    /\ UNCHANGED auxVars
    /\ mounted
    /\ user' = user + 1
    /\ LoadTrack(id, nav)
    /\ last' = Quiet
    /\ NoCommit
    /\ UNCHANGED <<mounted, hlsSupported, id, nav, reactVars, pollTimer, nextSid, hbInflight,
                   pollInflight, starts, gate, unmountInfo>>

\* A loadTrack whose setLoading(false) is the last statement of the try and
\* of the catch block instead of a finally block: an exception raised inside
\* the catch block skips it.
CatchWithoutFinally(a, call, status, d) ==
    LET c == Catch(status, d) IN
    /\ att' = [att EXCEPT ![a].pc = "done"]
    /\ last' = Failed(call, a, status, d)
    /\ IF mounted
       THEN /\ error' = IF c.thrown THEN error ELSE c.error
            /\ loading' = IF c.thrown THEN loading ELSE FALSE
            /\ UNCHANGED <<track, streamInfo, isPlaying, sessionId, quota, hlsLoaded>>
            /\ Commit(audio, completes)
       ELSE UNCHANGED reactVars /\ NoCommit

\* catch and finally of loadTrack, for a call of attempt a that failed.
CatchFinally(a, call, status, d) ==
    LET c == Catch(status, d) IN
    /\ att' = [att EXCEPT ![a].pc = "done"]
    /\ last' = Failed(call, a, status, d)
    /\ IF mounted
       THEN /\ error' = IF c.thrown THEN error ELSE c.error
            /\ loading' = FALSE
            /\ UNCHANGED <<track, streamInfo, isPlaying, sessionId, quota, hlsLoaded>>
            /\ Commit(audio, completes)
       ELSE UNCHANGED reactVars /\ NoCommit

\* GET /tracks/{id} answers.
TrackOk(a) ==
    /\ UNCHANGED auxVars
    /\ att[a].pc = "track"
    /\ att' = [att EXCEPT ![a].pc = "stream"]
    /\ last' = Quiet
    /\ IF mounted
       THEN /\ track' = att[a].id
            /\ UNCHANGED <<streamInfo, loading, error, isPlaying, sessionId, quota,
                           hlsLoaded>>
            /\ Commit(audio, completes)
       ELSE UNCHANGED reactVars /\ NoCommit
    /\ UNCHANGED <<mounted, hlsSupported, id, user, nav, pollTimer, nAtt, nextSid, hbInflight,
                   pollInflight, starts, gate, unmountInfo>>

TrackFail(a, status, d) ==
    /\ UNCHANGED auxVars
    /\ att[a].pc = "track"
    /\ CatchFinally(a, "TrackFail", status, d)
    /\ UNCHANGED <<mounted, hlsSupported, id, user, nav, pollTimer, nAtt, nextSid, hbInflight,
                   pollInflight, starts, gate, unmountInfo>>

\* GET /tracks/{id}/stream answers; on success POST /listen/start is issued.
StreamOk(a) ==
    /\ UNCHANGED auxVars
    /\ att[a].pc = "stream"
    /\ att' = [att EXCEPT ![a].pc = "start"]
    /\ starts' = starts \cup {a}
    /\ last' = Quiet
    /\ IF mounted
       THEN /\ streamInfo' = [att |-> a, trackId |-> att[a].id]
            /\ UNCHANGED <<track, loading, error, isPlaying, sessionId, quota,
                           hlsLoaded>>
            /\ Commit(audio, completes)
       ELSE UNCHANGED reactVars /\ NoCommit
    /\ UNCHANGED <<mounted, hlsSupported, id, user, nav, pollTimer, nAtt, nextSid, hbInflight,
                   pollInflight, gate, unmountInfo>>

StreamFail(a, status, d) ==
    /\ UNCHANGED auxVars
    /\ att[a].pc = "stream"
    /\ CatchFinally(a, "StreamFail", status, d)
    /\ UNCHANGED <<mounted, hlsSupported, id, user, nav, pollTimer, nAtt, nextSid, hbInflight,
                   pollInflight, starts, gate, unmountInfo>>

\* POST /listen/start answers with a new session and the quota.
StartOk(a, q) ==
    /\ UNCHANGED auxVars
    /\ att[a].pc = "start"
    /\ nextSid' = nextSid + 1
    /\ att' = [att EXCEPT ![a].pc = "done", ![a].sid = nextSid + 1]
    /\ last' = Quiet
    /\ IF mounted
       THEN /\ sessionId' = nextSid + 1
            /\ quota' = SetQuota(quota, q)
            /\ loading' = FALSE
            /\ gate' = (gate \/ ZeroRemaining(q))
            /\ UNCHANGED <<track, streamInfo, error, isPlaying, hlsLoaded>>
            /\ Commit(audio, completes)
       ELSE UNCHANGED <<reactVars, gate>> /\ NoCommit
    /\ UNCHANGED <<mounted, hlsSupported, id, user, nav, pollTimer, nAtt, hbInflight,
                   pollInflight, starts, unmountInfo>>

StartFail(a, status, d) ==
    /\ UNCHANGED auxVars
    /\ att[a].pc = "start"
    /\ CatchFinally(a, "StartFail", status, d)
    /\ UNCHANGED <<mounted, hlsSupported, id, user, nav, pollTimer, nAtt, nextSid, hbInflight,
                   pollInflight, starts, gate, unmountInfo>>

\* ------------------------------------------------------------ heartbeat
\* The setInterval callback of the heartbeat effect fires.  Its closure holds
\* the sessionId of the render that created the timer.
HeartbeatTick ==
    /\ UNCHANGED auxVars
    /\ hbTimer # 0
    /\ hbInflight < MaxInflight
    /\ IF audioRef
       THEN hbInflight' = hbInflight + 1 /\ last' = Sent(hbTimer)
       ELSE UNCHANGED hbInflight /\ last' = Quiet
    /\ NoCommit
    /\ UNCHANGED <<mounted, hlsSupported, id, user, nav, reactVars, pollTimer, att, nAtt, nextSid,
                   pollInflight, starts, gate, unmountInfo>>

\* POST /listen/heartbeat answers: setQuota(response.data.quota).
HeartbeatOk(q) ==
    /\ UNCHANGED auxVars
    /\ hbInflight > 0
    /\ hbInflight' = hbInflight - 1
    /\ last' = Quiet
    /\ IF mounted
       THEN /\ quota' = SetQuota(quota, q)
            /\ gate' = (gate \/ ZeroRemaining(q))
            /\ UNCHANGED <<track, streamInfo, loading, error, isPlaying, sessionId,
                           hlsLoaded>>
            /\ Commit(audio, completes)
       ELSE UNCHANGED <<reactVars, gate>> /\ NoCommit
    /\ UNCHANGED <<mounted, hlsSupported, id, user, nav, pollTimer, att, nAtt, nextSid,
                   pollInflight, starts, unmountInfo>>

\* A heartbeat callback whose catch block stops the timer and reports the
\* failure.
HeartbeatFailSurfaced ==
    /\ UNCHANGED auxVars
    /\ hbInflight > 0
    /\ hbInflight' = hbInflight - 1
    /\ last' = HeartbeatFailed
    /\ IF mounted
       THEN /\ error' = FailedToLoadMessage
            /\ UNCHANGED <<track, streamInfo, loading, isPlaying, sessionId, quota,
                           hlsLoaded>>
            /\ Commit(audio, completes)
       ELSE UNCHANGED reactVars /\ NoCommit
    /\ UNCHANGED <<mounted, hlsSupported, id, user, nav, pollTimer, att, nAtt, nextSid,
                   pollInflight, starts, gate, unmountInfo>>

\* POST /listen/heartbeat fails: the catch block is empty.
HeartbeatFail ==
    /\ UNCHANGED auxVars
    /\ hbInflight > 0
    /\ hbInflight' = hbInflight - 1
    /\ last' = HeartbeatFailed
    /\ NoCommit
    /\ UNCHANGED <<mounted, hlsSupported, id, user, nav, reactVars, pollTimer, att, nAtt, nextSid,
                   pollInflight, starts, gate, unmountInfo>>

\* -------------------------------------- quota refresh (earlier revision)
PollTick ==
    /\ UNCHANGED auxVars
    /\ pollTimer
    /\ pollInflight < MaxPolls
    /\ pollInflight' = pollInflight + 1
    /\ last' = Quiet
    /\ NoCommit
    /\ UNCHANGED <<mounted, hlsSupported, id, user, nav, reactVars, pollTimer, att, nAtt, nextSid,
                   hbInflight, starts, gate, unmountInfo>>

PollOk(q) ==
    /\ UNCHANGED auxVars
    /\ pollInflight > 0
    /\ pollInflight' = pollInflight - 1
    /\ last' = Quiet
    /\ IF mounted
       THEN /\ quota' = SetQuota(quota, q)
            /\ UNCHANGED <<track, streamInfo, loading, error, isPlaying, sessionId,
                           hlsLoaded>>
            /\ Commit(audio, completes)
       ELSE UNCHANGED reactVars /\ NoCommit
    /\ UNCHANGED <<mounted, hlsSupported, id, user, nav, pollTimer, att, nAtt, nextSid,
                   hbInflight, starts, gate, unmountInfo>>

PollFail ==
    /\ UNCHANGED auxVars
    /\ pollInflight > 0
    /\ pollInflight' = pollInflight - 1
    /\ last' = Quiet
    /\ NoCommit
    /\ UNCHANGED <<mounted, hlsSupported, id, user, nav, reactVars, pollTimer, att, nAtt, nextSid,
                   hbInflight, starts, gate, unmountInfo>>

\* --------------------------------------------------- the media element
\* togglePlay while isPlaying is false: audio.play(); the element fires 'play'
\* and onPlay sets isPlaying.  Playing an ended element restarts it.
Play ==
    /\ UNCHANGED auxVars
    /\ mounted /\ audioRef /\ hlsLoaded /\ ~isPlaying
    /\ isPlaying' = TRUE
    /\ last' = Quiet
    /\ UNCHANGED <<track, streamInfo, loading, error, sessionId, quota, hlsLoaded>>
    /\ Commit([audio EXCEPT !.paused = FALSE,
                             !.currentTime = IF audio.currentTime = Duration THEN 0
                                             ELSE audio.currentTime], completes)
    /\ UNCHANGED <<mounted, hlsSupported, id, user, nav, pollTimer, att, nAtt, nextSid, hbInflight,
                   pollInflight, starts, gate, unmountInfo>>

\* togglePlay while isPlaying is true: audio.pause(); an element that was
\* playing fires 'pause' and onPause clears isPlaying; a paused one fires nothing.
Pause ==
    /\ UNCHANGED auxVars
    /\ mounted /\ audioRef /\ hlsLoaded /\ isPlaying
    /\ isPlaying' = IF audio.paused THEN isPlaying ELSE FALSE
    /\ last' = Quiet
    /\ UNCHANGED <<track, streamInfo, loading, error, sessionId, quota, hlsLoaded>>
    /\ Commit([audio EXCEPT !.paused = TRUE], completes)
    /\ UNCHANGED <<mounted, hlsSupported, id, user, nav, pollTimer, att, nAtt, nextSid, hbInflight,
                   pollInflight, starts, gate, unmountInfo>>

\* updateBufferedRanges: the ranges pushed in the order audio.buffered lists
\* them.
UpdateBufferedRanges(buffered) ==
    [i \in 1..Len(buffered) |-> [start |-> buffered[i].start, end |-> buffered[i].end]]

\* Playback advances by one position unit ('timeupdate'): handleTimeUpdate
\* copies the element's buffered ranges into the bufferedRanges state.
TimeUpdate ==
    /\ UNCHANGED <<ioVars, duration, compDone, adminVars>>
    /\ audioRef /\ ~audio.paused /\ audio.currentTime < Duration
    /\ audio' = [audio EXCEPT !.currentTime = @ + 1]
    /\ bufferedRanges' = UpdateBufferedRanges(audio.buffered)
    /\ last' = Quiet
    /\ UNCHANGED <<mounted, hlsSupported, id, user, nav, reactVars, audioRef, completes, hbTimer, hbLive,
                   retryTimer, hlsCleanup, hlsRef, eng, pollTimer, att, nAtt, nextSid,
                   hbInflight, pollInflight, starts, gate, unmountInfo>>

\* Playback reaches the end: the element pauses itself and fires 'pause', then
\* 'ended', whose handler handleTrackEnd issues the completion call.
TrackEnded ==
    /\ UNCHANGED auxVars
    /\ audioRef /\ ~audio.paused /\ audio.currentTime = Duration
    /\ sessionId # 0 => completes[sessionId] < MaxEnded
    /\ isPlaying' = FALSE
    /\ last' = Quiet
    /\ UNCHANGED <<track, streamInfo, loading, error, sessionId, quota, hlsLoaded>>
    /\ Commit([audio EXCEPT !.paused = TRUE],
              IF sessionId # 0 THEN Complete(completes, sessionId)
              ELSE completes)
    /\ UNCHANGED <<mounted, hlsSupported, id, user, nav, pollTimer, att, nAtt, nextSid, hbInflight,
                   pollInflight, starts, gate, unmountInfo>>

\* 'loadedmetadata': the element has learnt the duration d of the resource the
\* engine of attach cycle a feeds it; handleLoadedMetadata copies it into the
\* duration state.
LoadedMetadata(a, d) ==
    /\ UNCHANGED <<ioVars, bufferedRanges, compDone, adminVars>>
    /\ mounted /\ audioRef /\ eng[a] \in {"live", "ready"}
    /\ audio.duration = NullVal
    /\ audio' = [audio EXCEPT !.duration = d]
    /\ duration' = d
    /\ last' = Quiet
    /\ UNCHANGED <<mounted, hlsSupported, id, user, nav, reactVars, audioRef, completes,
                   hbTimer, hbLive, retryTimer, hlsCleanup, hlsRef, eng, pollTimer, att,
                   nAtt, nextSid, hbInflight, pollInflight, starts, gate, unmountInfo>>

\* The engine of attach cycle a appends media data (or drops some): the element
\* reports the buffered ranges b, and the duration d, which grows when the data
\* reaches beyond it.  The <audio> element has no handler for 'progress' or
\* 'durationchange'.
BufferAppend(a, b, d) ==
    /\ UNCHANGED auxVars
    /\ audioRef /\ eng[a] \in {"live", "ready"}
    /\ audio.duration # NullVal /\ d >= audio.duration
    /\ b \in TimeRanges(d)
    /\ <<b, d>> # <<audio.buffered, audio.duration>>
    /\ audio' = [audio EXCEPT !.buffered = b, !.duration = d]
    /\ last' = Quiet
    /\ UNCHANGED <<mounted, hlsSupported, id, user, nav, reactVars, audioRef, completes,
                   hbTimer, hbLive, retryTimer, hlsCleanup, hlsRef, eng, pollTimer, att,
                   nAtt, nextSid, hbInflight, pollInflight, starts, gate, unmountInfo>>

\* ------------------------------------------------------------- engine
\* loadHls resumes after `await import('hls.js')`: creates the engine, stores
\* it in hlsRef, loads the source and attaches the element.  Nothing tells it
\* that the effect run that called it has been cleaned up meanwhile.
ImportResolved(a) ==
    /\ UNCHANGED auxVars
    /\ eng[a] = "pending"
    /\ IF hlsSupported
       THEN eng' = [eng EXCEPT ![a] = "live"] /\ hlsRef' = a
       ELSE eng' = [eng EXCEPT ![a] = "unsupported"] /\ UNCHANGED hlsRef
    /\ last' = Quiet
    /\ UNCHANGED <<mounted, hlsSupported, id, user, nav, reactVars, audioRef, audio, completes,
                   hbTimer, hbLive, retryTimer, hlsCleanup, pollTimer, att, nAtt, nextSid,
                   hbInflight, pollInflight, starts, gate, unmountInfo>>

\* MANIFEST_PARSED of a live engine: setHlsLoaded(true).
ManifestParsed(a) ==
    /\ UNCHANGED auxVars
    /\ eng[a] = "live"
    /\ eng' = [eng EXCEPT ![a] = "ready"]
    /\ hlsLoaded' = IF mounted THEN TRUE ELSE hlsLoaded
    /\ last' = Quiet
    /\ UNCHANGED <<mounted, hlsSupported, id, user, nav, track, streamInfo, loading, error,
                   isPlaying, sessionId, quota, audioRef, audio, completes,
                   hbTimer, hbLive, retryTimer, hlsCleanup, hlsRef, pollTimer, att, nAtt,
                   nextSid, hbInflight, pollInflight, starts, gate,
                   unmountInfo>>

\* The 100 ms timeout of the useHLSPlayer effect fires.
RetryTimeout ==
    /\ UNCHANGED auxVars
    /\ retryTimer
    /\ retryTimer' = FALSE
    /\ hlsLoaded' = IF audioRef THEN FALSE ELSE hlsLoaded
    /\ last' = Quiet
    /\ UNCHANGED <<mounted, hlsSupported, id, user, nav, track, streamInfo, loading, error,
                   isPlaying, sessionId, quota, audioRef, audio, completes,
                   hbTimer, hbLive, hlsCleanup, hlsRef, eng, pollTimer, att, nAtt,
                   nextSid, hbInflight, pollInflight, starts, gate,
                   unmountInfo>>

\* ----------------------------------------------- the engine's loader
GetAuthToken(st) == IF st.kind = "json" THEN st.token ELSE NoToken

Bearer(t) == <<"Bearer", t>>

\* CustomKeyLoader.load that knows only the localhost spelling of the host.
CustomKeyLoaderLoadLocalhostOnly(url, endpoint) ==
    IF Includes(url, Localhost) /\ Includes(url, KeysPath) /\ endpoint # NoUrl
    THEN endpoint ELSE url

\* CustomKeyLoader.load: the URL handed to the underlying loader.
CustomKeyLoaderLoad(url, endpoint) ==
    IF (Includes(url, Localhost) \/ Includes(url, Loopback))
         /\ Includes(url, KeysPath) /\ endpoint # NoUrl
    THEN endpoint ELSE url

\* xhrSetup: the Authorization header of the request to url.
XhrSetup(url, st) ==
    IF (Includes(url, KeysPath) \/ Includes(url, ApiKeysPath))
         /\ GetAuthToken(st) # NoToken
    THEN Bearer(GetAuthToken(st)) ELSE NoHeader

\* The engine of attach cycle a requests url (a key when isKey, otherwise a
\* playlist or a fragment): CustomKeyLoader.load, then the XHR loader calls
\* xhrSetup with the URL it is about to open.
LoaderLoad(a, url, isKey) ==
    /\ eng[a] \in {"live", "ready"} /\ streamInfo.att = a
    /\ LET sent == CustomKeyLoaderLoad(url, keyEndpoint) IN
         req' = [url |-> url, key |-> isKey, sent |-> sent,
                 auth |-> XhrSetup(sent, authStorage),
                 token |-> GetAuthToken(authStorage)]
    /\ last' = Quiet
    /\ NoCommit
    /\ UNCHANGED <<mounted, hlsSupported, id, user, nav, reactVars, pollTimer, att, nAtt,
                   nextSid, hbInflight, pollInflight, starts, gate, unmountInfo,
                   keyEndpoint, authStorage, hlsErr, trackerVars, compDone, adminVars>>

\* The auth store persists a new state (login, token refresh, logout).
StorageChange(st) ==
    /\ st # authStorage
    /\ authStorage' = st
    /\ last' = Quiet
    /\ NoCommit
    /\ UNCHANGED <<mounted, hlsSupported, id, user, nav, reactVars, pollTimer, att, nAtt,
                   nextSid, hbInflight, pollInflight, starts, gate, unmountInfo,
                   keyEndpoint, req, hlsErr, trackerVars, compDone, adminVars>>

\* ------------------------------------------------- the ERROR handler
Commands(a) == hlsErr[a].startLoad + hlsErr[a].recoverMediaError + hlsErr[a].destroy

\* An ERROR handler without the data.fatal test: every error is answered by
\* the command of its type.
EngineErrorIgnoringFatal(a, fatal, type, data) ==
    /\ eng[a] \in {"live", "ready"}
    /\ Commands(a) < MaxErrors
    /\ IF type = "networkError"
       THEN /\ hlsErr' = [hlsErr EXCEPT ![a].startLoad = @ + 1, ![a].data = data,
                                        ![a].cmd = "startLoad"]
            /\ UNCHANGED eng
       ELSE IF type = "mediaError"
       THEN /\ hlsErr' = [hlsErr EXCEPT ![a].recoverMediaError = @ + 1,
                                        ![a].data = data,
                                        ![a].cmd = "recoverMediaError"]
            /\ UNCHANGED eng
       ELSE /\ hlsErr' = [hlsErr EXCEPT ![a].destroy = @ + 1, ![a].data = data,
                                        ![a].cmd = "destroy"]
            /\ eng' = [eng EXCEPT ![a] = "destroyed"]
    /\ last' = IF fatal THEN Quiet ELSE NonFatal(a)
    /\ UNCHANGED <<mounted, hlsSupported, id, user, nav, reactVars, audioRef, audio,
                   completes, hbTimer, hbLive, retryTimer, hlsCleanup, hlsRef, pollTimer,
                   att, nAtt, nextSid, hbInflight, pollInflight, starts, gate,
                   unmountInfo, keyEndpoint, authStorage, req, trackerVars, compDone, adminVars>>

\* hls.on(ERROR): a non-fatal error is ignored; a fatal one restarts loading,
\* recovers the media error or destroys the engine, by its type.
EngineError(a, fatal, type, data) ==
    /\ eng[a] \in {"live", "ready"}
    /\ Commands(a) < MaxErrors
    /\ IF ~fatal THEN UNCHANGED <<hlsErr, eng>>
       ELSE IF type = "networkError"
            THEN /\ hlsErr' = [hlsErr EXCEPT ![a].startLoad = @ + 1, ![a].data = data,
                                             ![a].cmd = "startLoad"]
                 /\ UNCHANGED eng
       ELSE IF type = "mediaError"
            THEN /\ hlsErr' = [hlsErr EXCEPT ![a].recoverMediaError = @ + 1,
                                             ![a].data = data,
                                             ![a].cmd = "recoverMediaError"]
                 /\ UNCHANGED eng
       ELSE /\ hlsErr' = [hlsErr EXCEPT ![a].destroy = @ + 1, ![a].data = data,
                                        ![a].cmd = "destroy"]
            /\ eng' = [eng EXCEPT ![a] = "destroyed"]
    /\ last' = IF fatal THEN Quiet ELSE NonFatal(a)
    /\ UNCHANGED <<mounted, hlsSupported, id, user, nav, reactVars, audioRef, audio,
                   completes, hbTimer, hbLive, retryTimer, hlsCleanup, hlsRef, pollTimer,
                   att, nAtt, nextSid, hbInflight, pollInflight, starts, gate,
                   unmountInfo, keyEndpoint, authStorage, req, trackerVars, compDone, adminVars>>

\* ---------------------------------------------------------- completion
\* A completion call whose failure is reported to the user.
CompleteFailSurfaced(s) ==
    /\ UNCHANGED <<ioVars, trackerVars, adminVars>>
    /\ completes[s] > compDone[s]
    /\ compDone' = [compDone EXCEPT ![s] = @ + 1]
    /\ last' = CompleteFailed(s)
    /\ IF mounted
       THEN /\ error' = FailedToLoadMessage
            /\ UNCHANGED <<track, streamInfo, loading, isPlaying, sessionId, quota,
                           hlsLoaded>>
            /\ Commit(audio, completes)
       ELSE UNCHANGED reactVars /\ NoCommit
    /\ UNCHANGED <<mounted, hlsSupported, id, user, nav, pollTimer, att, nAtt, nextSid,
                   hbInflight, pollInflight, starts, gate, unmountInfo>>

\* POST /listen/complete for session s answers: nothing reads the response.
CompleteOk(s) ==
    /\ UNCHANGED <<ioVars, trackerVars, adminVars>>
    /\ completes[s] > compDone[s]
    /\ compDone' = [compDone EXCEPT ![s] = @ + 1]
    /\ last' = Quiet
    /\ NoCommit
    /\ UNCHANGED <<mounted, hlsSupported, id, user, nav, reactVars, pollTimer, att, nAtt,
                   nextSid, hbInflight, pollInflight, starts, gate, unmountInfo>>

\* POST /listen/complete for session s fails: .catch(() => {}) in the cleanup,
\* an empty catch block in handleTrackEnd.
CompleteFail(s) ==
    /\ UNCHANGED <<ioVars, trackerVars, adminVars>>
    /\ completes[s] > compDone[s]
    /\ compDone' = [compDone EXCEPT ![s] = @ + 1]
    /\ last' = CompleteFailed(s)
    /\ NoCommit
    /\ UNCHANGED <<mounted, hlsSupported, id, user, nav, reactVars, pollTimer, att, nAtt,
                   nextSid, hbInflight, pollInflight, starts, gate, unmountInfo>>

\* ------------------------------------------------------------- unmount
\* The player leaves the page: every effect's cleanup runs.  The audio ref
\* has been detached by then, so the completion cleanup reads null.  The
\* component's state is discarded (the variables return to their initial
\* values; unmountInfo keeps what the claims need of it).
Unmount ==
    /\ UNCHANGED <<ioVars, compDone, adminVars>>
    /\ duration' = 0 /\ bufferedRanges' = <<>>
    /\ mounted
    /\ mounted' = FALSE
    /\ unmountInfo' = [done |-> TRUE, sid |-> sessionId, pos |-> audio.currentTime,
                       playing |-> isPlaying /\ audioRef /\ ~audio.paused,
                       active |-> sessionId # 0 /\ completes[sessionId] = 0,
                       completed |-> CompletionCleanup(sessionId, FALSE),
                       cpos |-> IF CompletionCleanup(sessionId, FALSE)
                                THEN audio.currentTime ELSE 0]
    /\ audioRef' = FALSE /\ audio' = NewAudio
    /\ hbTimer' = 0 /\ hbLive' = ClearInterval(hbLive, hbTimer)
    /\ pollTimer' = FALSE /\ retryTimer' = FALSE
    /\ IF hlsCleanup = "destroy"
       THEN /\ hlsRef' = 0
            /\ eng' = IF hlsRef # 0 THEN [eng EXCEPT ![hlsRef] = "destroyed"] ELSE eng
       ELSE UNCHANGED <<hlsRef, eng>>
    /\ hlsCleanup' = "none"
    /\ completes' = IF CompletionCleanup(sessionId, FALSE)
                    THEN Complete(completes, sessionId) ELSE completes
    /\ last' = Quiet
    /\ track' = 0 /\ streamInfo' = NoStream /\ loading' = TRUE /\ error' = NoError
    /\ isPlaying' = FALSE /\ sessionId' = 0 /\ quota' = NoQuota /\ hlsLoaded' = FALSE
    /\ UNCHANGED <<hlsSupported, id, user, nav, att, nAtt, nextSid, hbInflight,
                   pollInflight, starts, gate>>

\* --------------------------------------------------- AdminUpload page
\* A polling callback that stops the polling only for a completed job.
StopsPollingOnCompleted(s) == s = "completed"

\* The branches of the polling callback that call clearInterval(pollInterval)
\* and setJobId(null).
StopsPolling(s) == s = "completed" \/ s = "failed"

\* The polling effect after a render in which jobId went from prev to next:
\* unchanged dependency, nothing runs; otherwise the cleanup clears the
\* effect's interval and the body sets one for a non-null jobId.
PollEffect(prev, next, interval) == IF next = prev THEN interval ELSE next

\* handleSubmit up to its first await: validation, then requestUpload.
HandleSubmit(valid) ==
    /\ adminMounted /\ ~uploading
    /\ IF ~valid
       THEN /\ uploadError' = SelectFileMessage
            /\ UNCHANGED <<success, uploading, requests>>
       ELSE /\ jobs + requests < MaxJobs
            /\ uploadError' = NoMessage /\ success' = NoMessage /\ uploading' = TRUE
            /\ requests' = requests + 1
    /\ last' = Quiet
    /\ UNCHANGED <<adminMounted, jobId, jobStatus, pollInterval, statusPolls, uploads, jobs,
                   resetTimers, terminalSeen, playerVars>>

\* requestUpload answers with a new job: setJobId(newJobId),
\* setJobStatus('pending_upload'); the upload to the presigned URL starts.
RequestUploadOk ==
    /\ requests > 0
    /\ requests' = requests - 1
    /\ jobs' = jobs + 1
    /\ uploads' = [uploads EXCEPT ![jobs + 1] = "s3"]
    /\ IF adminMounted
       THEN /\ jobId' = jobs + 1
            /\ jobStatus' = "pending_upload"
            /\ pollInterval' = PollEffect(jobId, jobs + 1, pollInterval)
       ELSE UNCHANGED <<jobId, jobStatus, pollInterval>>
    /\ last' = Quiet
    /\ UNCHANGED <<adminMounted, uploading, success, uploadError, statusPolls, resetTimers,
                   terminalSeen, playerVars>>

\* requestUpload fails: the catch block of handleSubmit.
RequestUploadFail ==
    /\ requests > 0
    /\ requests' = requests - 1
    /\ IF adminMounted
       THEN uploadError' = UploadFailedMessage /\ uploading' = FALSE
       ELSE UNCHANGED <<uploadError, uploading>>
    /\ last' = Quiet
    /\ UNCHANGED <<adminMounted, jobId, jobStatus, success, pollInterval, statusPolls,
                   uploads, jobs, resetTimers, terminalSeen, playerVars>>

\* The upload of job j's file to the presigned URL succeeds:
\* setJobStatus('uploaded'), then completeUpload is called.
S3UploadOk(j) ==
    /\ uploads[j] = "s3"
    /\ uploads' = [uploads EXCEPT ![j] = "complete"]
    /\ jobStatus' = IF adminMounted THEN "uploaded" ELSE jobStatus
    /\ last' = Quiet
    /\ UNCHANGED <<adminMounted, jobId, uploading, success, uploadError, pollInterval,
                   statusPolls, requests, jobs, resetTimers, terminalSeen, playerVars>>

\* completeUpload of job j answers: setJobStatus('processing').
CompleteUploadOk(j) ==
    /\ uploads[j] = "complete"
    /\ uploads' = [uploads EXCEPT ![j] = "done"]
    /\ jobStatus' = IF adminMounted THEN "processing" ELSE jobStatus
    /\ last' = Quiet
    /\ UNCHANGED <<adminMounted, jobId, uploading, success, uploadError, pollInterval,
                   statusPolls, requests, jobs, resetTimers, terminalSeen, playerVars>>

\* The upload or completeUpload of job j fails: the catch block of
\* handleSubmit; jobId stays set.
UploadFail(j) ==
    /\ uploads[j] \in {"s3", "complete"}
    /\ uploads' = [uploads EXCEPT ![j] = "done"]
    /\ IF adminMounted
       THEN uploadError' = UploadFailedMessage /\ uploading' = FALSE
       ELSE UNCHANGED <<uploadError, uploading>>
    /\ last' = Quiet
    /\ UNCHANGED <<adminMounted, jobId, jobStatus, success, pollInterval, statusPolls,
                   requests, jobs, resetTimers, terminalSeen, playerVars>>

\* The setInterval callback of the polling effect fires: getJobStatus for the
\* jobId its closure holds.
PollIntervalTick ==
    /\ pollInterval # 0
    /\ statusPolls[pollInterval] < MaxStatusPolls
    /\ statusPolls' = [statusPolls EXCEPT ![pollInterval] = @ + 1]
    /\ last' = Quiet
    /\ UNCHANGED <<adminMounted, jobId, jobStatus, uploading, success, uploadError,
                   pollInterval, requests, uploads, jobs, resetTimers, terminalSeen,
                   playerVars>>

\* getJobStatus of job j answers with status s (and error e for a failed job).
JobStatusOk(j, s, e) ==
    LET interval == IF StopsPolling(s) /\ pollInterval = j THEN 0 ELSE pollInterval
        nextJob == IF StopsPolling(s) THEN NoJob ELSE jobId
    IN
    /\ statusPolls[j] > 0
    /\ statusPolls' = [statusPolls EXCEPT ![j] = @ - 1]
    /\ terminalSeen' = IF s \in {"completed", "failed"} THEN terminalSeen \cup {j}
                       ELSE terminalSeen
    /\ resetTimers' = IF s = "completed" THEN resetTimers + 1 ELSE resetTimers
    /\ IF adminMounted
       THEN /\ jobStatus' = s
            /\ success' = IF s = "completed" THEN UploadCompletedMessage ELSE success
            /\ uploadError' = IF s = "failed"
                              THEN (IF e # NoMessage THEN e ELSE UploadFailedMessage)
                              ELSE uploadError
            /\ uploading' = IF s = "failed" THEN FALSE ELSE uploading
            /\ jobId' = nextJob
            /\ pollInterval' = PollEffect(jobId, nextJob, interval)
       ELSE /\ pollInterval' = interval
            /\ UNCHANGED <<jobStatus, success, uploadError, uploading, jobId>>
    /\ last' = Quiet
    /\ UNCHANGED <<adminMounted, requests, uploads, jobs, playerVars>>

\* getJobStatus of job j fails: the catch block only logs.
JobStatusFail(j) ==
    /\ statusPolls[j] > 0
    /\ statusPolls' = [statusPolls EXCEPT ![j] = @ - 1]
    /\ last' = JobStatusFailed(j)
    /\ UNCHANGED <<adminMounted, jobId, jobStatus, uploading, success, uploadError,
                   pollInterval, requests, uploads, jobs, resetTimers, terminalSeen,
                   playerVars>>

\* The timeout set after a completed job fires: resetForm.
ResetFormTimeout ==
    /\ resetTimers > 0
    /\ resetTimers' = resetTimers - 1
    /\ IF adminMounted
       THEN /\ uploading' = FALSE /\ jobId' = NoJob /\ jobStatus' = NoStatus
            /\ uploadError' = NoMessage /\ success' = NoMessage
            /\ pollInterval' = PollEffect(jobId, NoJob, pollInterval)
       ELSE UNCHANGED <<uploading, jobId, jobStatus, uploadError, success, pollInterval>>
    /\ last' = Quiet
    /\ UNCHANGED <<adminMounted, statusPolls, requests, uploads, jobs, terminalSeen,
                   playerVars>>

\* The admin leaves the page: the cleanup of the polling effect clears the
\* interval; the component's state is discarded.
AdminUnmount ==
    /\ adminMounted
    /\ adminMounted' = FALSE
    /\ pollInterval' = 0
    /\ jobId' = NoJob /\ jobStatus' = NoStatus /\ uploading' = FALSE
    /\ uploadError' = NoMessage /\ success' = NoMessage
    /\ last' = Quiet
    /\ UNCHANGED <<statusPolls, requests, uploads, jobs, resetTimers, terminalSeen,
                   playerVars>>

\* ---------------------------------------------------------------- Next
Failures == {QuotaStatus, OtherStatus} \X Details

Resolution ==
    \E a \in Attempts :
        \/ TrackOk(a)
        \/ StreamOk(a)
        \/ \E q \in Quotas : StartOk(a, q)
        \/ \E f \in Failures :
              TrackFail(a, f[1], f[2]) \/ StreamFail(a, f[1], f[2]) \/ StartFail(a, f[1], f[2])

Navigation == (\E t \in TrackIds : ChangeTrack(t)) \/ ChangeUser \/ Unmount

Heartbeat == HeartbeatTick \/ (\E q \in Quotas : HeartbeatOk(q)) \/ HeartbeatFail

QuotaPoll == PollTick \/ (\E q \in Quotas : PollOk(q)) \/ PollFail

Media == Play \/ Pause \/ TimeUpdate \/ TrackEnded

Engine ==
    \/ \E a \in Attempts : ImportResolved(a)
    \/ \E a \in Attempts : ManifestParsed(a)
    \/ RetryTimeout

\* The current revision of the player.
Next == Resolution \/ Navigation \/ Heartbeat \/ Media \/ Engine

Spec == Init /\ [][Next]_vars

\* The player with the quota refresh effect of the earlier revision.
InitQuotaPoll == InitWith(TRUE)
NextQuotaPoll == Next \/ QuotaPoll
SpecQuotaPoll == InitQuotaPoll /\ [][NextQuotaPoll]_vars

\* The player with the responses of its completion calls, for an account
\* that has listening time left.
PlentyQuota == [unlimited |-> FALSE, minutes_remaining |-> 5]
Completion == \E s \in Sids : CompleteOk(s) \/ CompleteFail(s)
NextCompletion ==
    \/ \E a \in Attempts : TrackOk(a) \/ StreamOk(a) \/ StartOk(a, PlentyQuota)
    \/ \E a \in Attempts : StartFail(a, OtherStatus, NoDetail)
    \/ Navigation
    \/ HeartbeatTick \/ HeartbeatOk(PlentyQuota) \/ HeartbeatFail
    \/ Media
    \/ Engine
    \/ Completion
SpecCompletion == Init /\ [][NextCompletion]_vars

\* The player of one resolution with the quota refresh effect: start,
\* heartbeat and poll responses arrive in any order.
NextQuotaOrder ==
    \/ \E a \in Attempts :
          TrackOk(a) \/ StreamOk(a) \/ (\E q \in Quotas : StartOk(a, q))
    \/ Heartbeat
    \/ QuotaPoll
    \/ Media
    \/ Engine
    \/ Unmount

SpecQuotaOrder == InitQuotaPoll /\ [][NextQuotaOrder]_vars

\* One attach cycle: the first resolution has succeeded and loadHls has created
\* the engine and attached it; the engine then loads, reports errors and is
\* torn down by the unmount.
InitEngine ==
    /\ mounted = TRUE /\ hlsSupported = TRUE /\ id = 1 /\ user = 0 /\ nav = 0
    /\ track = 1 /\ streamInfo = [att |-> 1, trackId |-> 1]
    /\ loading = FALSE /\ error = NoError
    /\ isPlaying = FALSE /\ sessionId = 1
    /\ quota = [unlimited |-> FALSE, minutes_remaining |-> 5] /\ hlsLoaded = FALSE
    /\ audioRef = TRUE /\ audio = NewAudio
    /\ hbTimer = 0 /\ hbLive = 0 /\ pollTimer = FALSE /\ retryTimer = FALSE
    /\ hlsRef = 1 /\ hlsCleanup = "destroy"
    /\ eng = [a \in Attempts |-> IF a = 1 THEN "live" ELSE "none"]
    /\ att = [a \in Attempts |->
                 IF a = 1 THEN [pc |-> "done", id |-> 1, nav |-> 0, sid |-> 1]
                 ELSE NoAttempt]
    /\ nAtt = 1 /\ nextSid = 1 /\ hbInflight = 0 /\ pollInflight = 0
    /\ starts = {1} /\ completes = [s \in Sids |-> 0]
    /\ gate = FALSE /\ unmountInfo = NoUnmount
    /\ last = Quiet
    /\ keyEndpoint \in KeyEndpoints /\ authStorage \in Storages /\ req = NoRequest
    /\ hlsErr = [a \in Attempts |-> NoCommands]
    /\ duration = 0 /\ bufferedRanges = <<>>
    /\ compDone = [s \in Sids |-> 0]
    /\ AdminIdle

Loader ==
    \/ \E a \in Attempts, u \in Urls, k \in BOOLEAN : LoaderLoad(a, u, k)
    \/ \E st \in Storages : StorageChange(st)

EngineErrors ==
    \E a \in Attempts, f \in BOOLEAN, t \in ErrorTypes :
        \E d \in ErrorData(t) : EngineError(a, f, t, d)

NextEngine ==
    \/ Loader
    \/ EngineErrors
    \/ \E a \in Attempts : ManifestParsed(a)
    \/ Unmount

SpecEngine == InitEngine /\ [][NextEngine]_vars

\* One attach cycle seen from the buffer display: the engine feeds the element,
\* the element plays and reports its duration, position and buffered ranges.
InitTracker == InitEngine /\ keyEndpoint = NoUrl /\ authStorage = NoStorage

Tracker ==
    \/ \E a \in Attempts, d \in 1..MaxTime : LoadedMetadata(a, d)
    \/ \E a \in Attempts, d \in 1..MaxTime :
          \E b \in TimeRanges(d) : BufferAppend(a, b, d)

NextTracker ==
    \/ Tracker
    \/ Media
    \/ \E a \in Attempts : ManifestParsed(a)
    \/ Unmount

SpecTracker == InitTracker /\ [][NextTracker]_vars

\* The player of one resolution, with every quota-bearing response computed
\* by the server from an account's limit and use.
NextServerQuota ==
    \/ \E a \in Attempts :
          TrackOk(a) \/ StreamOk(a) \/ (\E q \in ServerQuotas : StartOk(a, q))
    \/ HeartbeatTick \/ (\E q \in ServerQuotas : HeartbeatOk(q)) \/ HeartbeatFail
    \/ PollTick \/ (\E q \in ServerQuotas : PollOk(q)) \/ PollFail
    \/ Media
    \/ Engine
    \/ Unmount

SpecServerQuota == InitQuotaPoll /\ [][NextServerQuota]_vars

\* The AdminUpload page: submissions, their uploads, the polling effect.
AdminSubmit ==
    \/ \E valid \in BOOLEAN : HandleSubmit(valid)
    \/ RequestUploadOk \/ RequestUploadFail
    \/ \E j \in Jobs : S3UploadOk(j) \/ CompleteUploadOk(j) \/ UploadFail(j)

AdminPolling ==
    \/ PollIntervalTick
    \/ \E j \in Jobs, st \in JobStatuses, e \in JobErrors : JobStatusOk(j, st, e)
    \/ \E j \in Jobs : JobStatusFail(j)
    \/ ResetFormTimeout

NextAdminUpload == AdminSubmit \/ AdminPolling \/ AdminUnmount

SpecAdminUpload == Init /\ [][NextAdminUpload]_vars

\* ============================================================== claims
\* The session that attempt-issued id s belongs to was started in this epoch
\* of the route parameter.
SessionNav(s) == LET a == CHOOSE x \in Attempts : att[x].sid = s IN att[a].nav
Started(s) == \E a \in Attempts : att[a].sid = s
InFlight(a) == att[a].pc \in {"track", "stream", "start"}
Created(a) == eng[a] \in {"live", "ready", "destroyed"}
Structured(d) == d.kind = "object" /\ d.error # ""

\* C1: every listening session gets exactly one completion call: never more
\* than one, and one once the player has let go of the session (it holds
\* another session, or was unmounted holding this one).
C1_ExactlyOneCompletion ==
    \A s \in Sids :
        /\ completes[s] <= 1
        /\ ((mounted /\ Started(s) /\ sessionId # s)
               \/ (~mounted /\ unmountInfo.sid = s)) => (completes[s] = 1)

\* C2: a heartbeat request is only ever issued while isPlaying is true.
C2_HeartbeatOnlyWhilePlaying == last.ev = "heartbeat" => isPlaying

\* C2 witness: a heartbeat was sent while playing, and the player has since
\* been paused, which stopped the timer.
C2_Witness ==
    /\ mounted /\ hbInflight > 0 /\ ~isPlaying /\ hbTimer = 0
    /\ sessionId # 0 /\ audioRef /\ audio.paused /\ completes[sessionId] = 0

\* C3: for one value of the route's track id, at most one session-start call
\* is issued, however often the resolution effect re-runs.
C3_OneStartPerTrack ==
    \A n \in 0..MaxAttempts : Cardinality({a \in starts : att[a].nav = n}) <= 1

\* C4: no heartbeat carries the id of a session for which a completion call
\* has been issued.
C4_NoHeartbeatAfterCompletion ==
    last.ev = "heartbeat" => completes[last.sid] = 0

\* C5: unmounting while playing at position p with an active session issues
\* exactly one completion call, carrying p; after the unmount no heartbeat or
\* quota-poll timer is live and no heartbeat is sent.
C5_UnmountCompletesOnce ==
    /\ (unmountInfo.done /\ unmountInfo.playing /\ unmountInfo.active) =>
           /\ completes[unmountInfo.sid] = 1
           /\ unmountInfo.completed /\ unmountInfo.cpos = unmountInfo.pos
    /\ ~mounted => (hbTimer = 0 /\ ~pollTimer /\ last.ev # "heartbeat")

\* C6: while the resolution of a new track id is in flight, the previous
\* session has been torn down: no heartbeat timer, no engine of the previous
\* track, and its completion call issued; the same after an unmount.
C6_TeardownBeforeNextResolution ==
    /\ \A a \in Attempts :
          (mounted /\ InFlight(a) /\ att[a].nav = nav /\ sessionId # 0
             /\ SessionNav(sessionId) < nav) =>
              /\ hbTimer = 0
              /\ \A e \in Attempts : eng[e] \in {"live", "ready"} => att[e].nav = nav
              /\ completes[sessionId] > 0
    /\ ~mounted =>
          /\ hbTimer = 0
          /\ \A e \in Attempts : eng[e] \notin {"live", "ready"}
          /\ unmountInfo.sid # 0 => completes[unmountInfo.sid] > 0

\* C7: once a session-start or heartbeat response has reported zero remaining
\* time for a quota that is not unlimited, no play command reaches the media
\* element, the element does not play and no heartbeat is issued.
C7_GatedFromThenOn ==
    gate => (audio.paused /\ last.ev # "heartbeat")

\* C8: a quota marked unlimited never shows the limit-reached screen.
C8_UnlimitedNeverGated ==
    (quota # NoQuota /\ quota.unlimited) =>
        Screen(loading, error, track, quota) # "limit"

\* C9: a session-start call that fails with 429 and a structured detail
\* surfaces "<error>. Used <floor(used)> of <floor(limit)> minutes today.",
\* and the attempt has no engine instance and no session id.
C9_StructuredQuotaError ==
    (mounted /\ last.ev = "StartFail" /\ last.status = QuotaStatus
       /\ Structured(last.detail)) =>
        /\ error = QuotaDetailMessage(last.detail)
        /\ ~Created(last.att)
        /\ att[last.att].sid = 0

\* C10: a session-start call that fails with 429 and no structured payload
\* surfaces the generic quota message, which no other failure surfaces.
C10_GenericQuotaError ==
    /\ (mounted /\ last.ev = "StartFail" /\ last.status = QuotaStatus
          /\ ~Structured(last.detail)) => error = GenericQuotaMessage
    /\ (mounted /\ last.ev = "StartFail" /\ last.status # QuotaStatus) =>
          error # GenericQuotaMessage

\* C11: with a key endpoint declared, a loader request whose URL contains
\* localhost:8000 or 127.0.0.1:8000 and /keys/ is dispatched to the key
\* endpoint.
C11_KeyRequestRewritten ==
    (req.url # NoUrl /\ keyEndpoint # NoUrl
       /\ (Includes(req.url, Localhost) \/ Includes(req.url, Loopback))
       /\ Includes(req.url, KeysPath)) => req.sent = keyEndpoint

\* C11 witness: a loopback key URL was rewritten to the public endpoint.
C11_Witness ==
    /\ req.url = Url("127.0.0.1:8000", <<"api", "keys", "42">>)
    /\ keyEndpoint = Url("pub.example", <<"keys", "42">>)
    /\ req.sent = keyEndpoint

\* C12: every key request carries the bearer header with the access token
\* that was current when it was sent.
C12_KeyRequestsAuthorized ==
    (req.key /\ req.token # NoToken) => req.auth = Bearer(req.token)

\* C13: by the third fatal network error of one engine the adapter has
\* stopped restarting the load and has surfaced an error.
C13_RestartsEscalate ==
    \A a \in Attempts : hlsErr[a].startLoad >= 3 => error # NoError

\* C14: an engine that exists and is not destroyed belongs to the attach cycle
\* the mounted player is in: every teardown destroyed the engine of its cycle.
C14_EnginesDestroyedOnTeardown ==
    \A a \in Attempts :
        eng[a] \in {"live", "ready"} =>
            (mounted /\ streamInfo.att = a /\ hlsCleanup = "destroy")

\* C15: at most one engine instance is created and not destroyed.
C15_OneEngine == Cardinality({a \in Attempts : eng[a] \in {"live", "ready"}}) <= 1

\* C16: a mounted player has at most one session that is started, or being
\* started, and not completed.
C16_OneActiveSession ==
    mounted =>
        Cardinality({s \in Sids : Started(s) /\ completes[s] = 0})
          + Cardinality({a \in Attempts : att[a].pc = "start"}) <= 1

\* C17: a heartbeat carries a session id that a start call made for the
\* current value of the track identifier returned.
C17_NoStaleSession ==
    (mounted /\ last.ev = "heartbeat") => SessionNav(last.sid) = nav

\* C18: at most one heartbeat interval is live; a live one belongs to the
\* session the mounted player holds while it is playing.
C18_OneHeartbeatTimer ==
    /\ hbLive <= 1
    /\ hbLive = 1 => (mounted /\ isPlaying /\ hbTimer = sessionId)

\* C18 witness: an interval is live for the second session the player holds.
C18_Witness == hbLive = 1 /\ hbTimer = 2 /\ Started(1)

\* C19: a heartbeat interval, a heartbeat and a completion call exist only
\* for a session whose start response has been observed.
C19_StartObservedFirst ==
    /\ hbLive > 0 => (hbTimer # 0 /\ Started(hbTimer))
    /\ last.ev = "heartbeat" => Started(last.sid)
    /\ \A s \in Sids : completes[s] > 0 => Started(s)
    /\ sessionId # 0 => Started(sessionId)

\* C19 witness: a heartbeat was sent for the second session after the first
\* one got its completion call.
C19_Witness == last.ev = "heartbeat" /\ last.sid = 2 /\ completes[1] = 1

SortedByStart(r) == \A i, j \in 1..Len(r) : i < j => r[i].start <= r[j].start
NonOverlapping(r) == \A i, j \in 1..Len(r) : i < j => r[i].end <= r[j].start
EndsWithin(r, d) == \A i \in 1..Len(r) : r[i].end <= d
C21_BufferedRangesWellFormed ==
    [][TimeUpdate =>
          /\ SortedByStart(bufferedRanges')
          /\ NonOverlapping(bufferedRanges')
          /\ EndsWithin(bufferedRanges', duration')]_vars

\* C22: a play command reaches the media element only when the engine of the
\* current attach cycle has signalled manifest-parsed.
C22_PlayOnlyWhenReady ==
    [][Play => (streamInfo.att # 0 /\ eng[streamInfo.att] = "ready")]_vars

\* C23: a fatal media error is answered with recoverMediaError once; a second
\* consecutive one issues no further recovery command and ends in Fatal (the
\* engine destroyed, an error surfaced).
C23_MediaRecoveryOnce ==
    \A a \in Attempts :
        (hlsErr[a].startLoad = 0 /\ hlsErr[a].destroy = 0) =>
            hlsErr[a].recoverMediaError <= 1

\* C24: a fatal error that is neither a network nor a media error, and an
\* engine that is not supported, end in Fatal: the engine instance (if any) is
\* destroyed and the error state holds a playback-error message.
C24_OtherFatalErrorSurfaced ==
    \A a \in Attempts :
        /\ hlsErr[a].destroy > 0 => (eng[a] = "destroyed" /\ (mounted => error # NoError))
        /\ (eng[a] = "unsupported" /\ mounted /\ streamInfo.att = a) => error # NoError

\* C25: a fatal key-fetch failure with status 401 or 403 is not answered with
\* the restart-load command, and it is surfaced in the error state.
KeyFetchAuthError(d) == d.details = "keyLoadError" /\ d.code \in {401, 403}
C25_KeyAuthErrorFatal ==
    \A a \in Attempts :
        KeyFetchAuthError(hlsErr[a].data) =>
            (hlsErr[a].cmd # "startLoad" /\ (mounted => error # NoError))

\* C26: a heartbeat failure leaves the error state, the session id, the quota
\* and the heartbeat timer as they were, and sends no request of its own: the
\* next heartbeat is the one of the next timer tick.
C26_HeartbeatFailureSilent ==
    [][HeartbeatFail =>
          /\ UNCHANGED <<error, sessionId, quota, loading, hbTimer, hbLive>>
          /\ hbInflight' = hbInflight - 1
          /\ last'.ev # "heartbeat"]_vars

\* C26 witness: a heartbeat has just failed while the player plays; its timer
\* is live, its session and quota are held and no error shows.
C26_Witness ==
    /\ last.ev = "heartbeatFail" /\ mounted /\ isPlaying /\ hbLive = 1
    /\ hbTimer = sessionId /\ sessionId # 0 /\ quota # NoQuota /\ error = NoError
    /\ Screen(loading, error, track, quota) = "player"

\* C27: a completion failure changes neither the error state nor anything
\* else of the player; the step that issues the completion call of a session
\* it lets go of has cleared that session's heartbeat timer, and an unmount
\* clears the timers and destroys the engine it holds, whatever completion
\* calls are still unanswered.
C27_CompletionNeverBlocks ==
    [][/\ (\E s \in Sids : CompleteFail(s)) =>
             UNCHANGED <<error, loading, sessionId, quota, isPlaying, hbTimer, hbLive,
                         eng, hlsRef>>
       /\ \A s \in Sids :
             (completes'[s] > completes[s] /\ sessionId' # s) =>
                 (hbTimer' # s /\ hbLive' <= 1)
       /\ Unmount =>
             /\ hbLive' = 0 /\ hbTimer' = 0 /\ ~retryTimer' /\ ~pollTimer'
             /\ (hlsCleanup = "destroy" /\ hlsRef # 0) => eng'[hlsRef] = "destroyed"]_vars

\* C27 witness: the completion call of the first session, issued when the
\* second session replaced it, has failed; the player plays the second session
\* with its heartbeat timer and shows no error.
C27_Witness ==
    /\ last.ev = "completeFail" /\ last.sid = 1 /\ mounted /\ sessionId = 2
    /\ isPlaying /\ hbLive = 1 /\ hbTimer = 2 /\ error = NoError

\* C28: a mounted player that shows the limit-reached screen never returns to
\* the playable screen, whatever response arrives.
C28_LimitReachedTerminal ==
    [][(mounted /\ mounted' /\ Screen(loading, error, track, quota) = "limit") =>
           Screen(loading', error', track', quota') # "player"]_vars

\* C29: while the player is mounted a quota-poll timer is live, whether it
\* plays or not and whether a heartbeat timer is live or not.
C29_QuotaPollWhileMounted == mounted => pollTimer

\* C30: the quota a mounted player holds is the quota of the response that
\* arrived last: every start, heartbeat and poll response replaces it, and
\* nothing else changes it.
QuotaResponse(q) ==
    (\E a \in Attempts : StartOk(a, q)) \/ HeartbeatOk(q) \/ PollOk(q)
C30_LastResponseWins ==
    [][/\ \A q \in Quotas : (mounted /\ QuotaResponse(q)) => quota' = q
       /\ (mounted' /\ quota' # quota) => QuotaResponse(quota')]_vars

\* C30 witness: after a response that reported no remaining time, a response
\* that arrived later and reports five minutes is the quota held.
C30_Witness ==
    /\ mounted /\ gate /\ sessionId # 0 /\ pollTimer
    /\ quota = [unlimited |-> FALSE, minutes_remaining |-> 5]
    /\ hbInflight = 0 /\ pollInflight = 0


\* The calls of loadTrack whose failure ends a resolution attempt.
FailedCalls == {"TrackFail", "StreamFail", "StartFail"}

\* C31: the player shows a succeeded resolution (no error, a session id) for
\* a finished attempt only if that attempt's three calls succeeded; a failed
\* call surfaces its own error; and a failed session-start call leaves no
\* session id set and no engine of its attempt created or to be created.
C31_ResolutionAllOrNothing ==
    /\ \A a \in Attempts :
          (mounted /\ att[a].pc = "done" /\ error = NoError /\ sessionId # 0) =>
              att[a].sid # 0
    /\ (mounted /\ last.ev \in FailedCalls) =>
          /\ error # NoError
          /\ Catch(last.status, last.detail).thrown
               \/ error = Catch(last.status, last.detail).error
    /\ (mounted /\ last.ev = "StartFail") =>
          (sessionId = 0 /\ eng[last.att] \notin {"pending", "live", "ready"})

\* C33: loadHls creates the engine only for a mounted player that is not
\* loading, has no error, holds a stream manifest and renders the audio
\* element; the created engine is the one stored in hlsRef, with its source
\* loaded and the element attached.
C33_EngineCreatedWhenResolved ==
    [][\A a \in Attempts :
          (ImportResolved(a) /\ hlsSupported) =>
              /\ mounted /\ audioRef
              /\ ~loading /\ error = NoError /\ streamInfo # NoStream
              /\ eng'[a] = "live" /\ hlsRef' = a]_vars

\* C35: when no response is outstanding and the latest resolution succeeded,
\* the track, the stream manifest and the session id the player holds are
\* those of the latest resolution.
C35_LatestResolutionWins ==
    (mounted /\ (\A a \in Attempts : ~InFlight(a)) /\ att[nAtt].sid # 0) =>
        /\ track = att[nAtt].id
        /\ streamInfo = [att |-> nAtt, trackId |-> att[nAtt].id]
        /\ sessionId = att[nAtt].sid

\* An engine instance is attached to the media element.
Attached == \E a \in Attempts : eng[a] \in {"live", "ready"}

\* C36: a step that leaves the mounted player without an attached engine
\* leaves isPlaying false; while no engine is attached only a play signal sets
\* isPlaying, and no heartbeat is sent while it is false.
C36_NotPlayingWithoutEngine ==
    [][/\ (mounted' /\ Attached /\ ~Attached') => ~isPlaying'
       /\ (mounted' /\ ~Attached /\ ~Attached' /\ ~isPlaying /\ isPlaying') => Play
       /\ (mounted /\ ~Attached /\ ~isPlaying) => hbInflight' <= hbInflight]_vars

\* C37: after a failed call of loadTrack the error state is a message,
\* loading is false and the error screen is shown.
C37_FailureShowsErrorScreen ==
    (mounted /\ last.ev \in FailedCalls) =>
        /\ error # NoError
        /\ ~loading
        /\ Screen(loading, error, track, quota) = "error"

\* C38: a finished resolution attempt leaves loading false, and while the
\* player stays mounted loading never returns from false to true.
C38_LoadingClearedForGood ==
    [][/\ \A a \in Attempts :
             (mounted' /\ att[a].pc # "done" /\ att'[a].pc = "done") => ~loading'
       /\ (mounted /\ mounted' /\ ~loading) => ~loading']_vars

\* C38 witness: the first attempt has finished and cleared loading; the track
\* id has changed and the second resolution is in flight with loading false.
C38_Witness ==
    /\ mounted /\ ~loading
    /\ att[1].pc = "done" /\ nAtt = 2 /\ InFlight(2) /\ att[2].id # att[1].id


\* C32: a request that is not a key request is sent to the URL the engine
\* asked for, without an Authorization header.
C32_OtherRequestsUntouched ==
    (req.url # NoUrl /\ ~req.key) => (req.sent = req.url /\ req.auth = NoHeader)

\* C34: a non-fatal ERROR event changes neither the error state, hlsLoaded,
\* isPlaying nor the engine, and calls no command of the engine.
C34_NonFatalErrorIgnored ==
    [][\A a \in Attempts, t \in ErrorTypes :
          \A d \in ErrorData(t) :
              EngineError(a, FALSE, t, d) =>
                  UNCHANGED <<error, hlsLoaded, isPlaying, loading, eng, hlsRef,
                              hlsCleanup, hlsErr>>]_vars

\* C34 witness: a non-fatal error has just been reported by a live engine
\* that has received no command.
C34_Witness ==
    /\ last = NonFatal(1) /\ mounted /\ error = NoError
    /\ eng[1] \in {"live", "ready"} /\ hlsRef = 1 /\ hlsErr[1] = NoCommands

\* C39: the cleanup of the useHLSPlayer effect, which destroys the engine in
\* hlsRef and clears the ref, never finds there an engine that the ERROR
\* handler has destroyed already.
C39_DestroyedOnce ==
    [][(hlsRef # 0 /\ hlsRef' = 0) => eng[hlsRef] # "destroyed"]_vars

\* C40: no job status poll is issued for a job after a poll has observed its
\* status completed or failed; a failed poll request changes neither the
\* interval nor jobId, and leaves the next tick free to poll.
C40_PollingStopsAtTerminal ==
    [][/\ \A j \in Jobs : statusPolls'[j] > statusPolls[j] => j \notin terminalSeen
       /\ \A j \in Jobs :
             JobStatusFail(j) =>
                 /\ UNCHANGED <<pollInterval, jobId, jobStatus, uploading, uploadError>>
                 /\ pollInterval = j => statusPolls'[j] < MaxStatusPolls]_vars

\* C40 witness: a poll observed the end of job 1 and the polling stopped; job
\* 2 was submitted, and its status request has just failed with its interval
\* still live.
C40_Witness ==
    /\ terminalSeen = {1} /\ statusPolls[1] = 0
    /\ last = JobStatusFailed(2) /\ adminMounted /\ jobId = 2 /\ pollInterval = 2

============================================================================
